---- MODULE Spec2Model ----
(***************************************************************************)
(* A model of BirthdayParadoxAnalyzer (src/BirthdayParadoxAnalyzer.py):    *)
(* the table it loads and preprocesses, run_analysis with its loop over    *)
(* the squads, calculate_theoretical_probability and print_summary.        *)
(***************************************************************************)
EXTENDS Integers, Sequences, FiniteSets, TLC

VARIABLES
    df,                   \* self.df after __init__ (read_csv + _preprocess)
    squad_size,           \* self.squad_size
    pc,                   \* where the caller, or the method it called, stands
    players,              \* run_analysis: the filtered rows
    squads,               \* run_analysis: the group keys still to visit
    visited,              \* run_analysis: the group keys visited so far
    squad_players,        \* run_analysis: the squad of the last pass
    total_squads,         \* run_analysis: counter
    squads_with_matches,  \* run_analysis: counter
    out,                  \* stdout: the lines printed so far
    call,                 \* print_summary: the arguments of its last call
    calc,                 \* calculate_theoretical_probability: its frame
    again,                \* history: the calls of run_analysis on one analyzer
    scr,                  \* cricinfo_batch_scraper: its frame
    files,                \* the three files cricinfo_batch_scraper works on
    hist                  \* history: the runs of cricinfo_batch_scraper

vars == <<df, squad_size, pc, players, squads, visited, squad_players,
          total_squads, squads_with_matches, out, call, calc, again,
                   scr, files, hist>>

----------------------------------------------------------------------------
(* Bounds of the model *)

\* the longest free-form table read from the CSV file
MaxRows == 3
\* the largest value a caller assigns to self.squad_size
MaxSquad == 3
\* the largest number of pages of a full-roster table
MaxGroups == 2
\* the largest n calculate_theoretical_probability is called with directly
MaxN == 367
\* the largest whole percentage print_summary is called with directly
MaxPercent == 60
\* the last roster place of the two members who share a birthday
MaxShare == 4
\* the longest people.csv cricinfo_batch_scraper is run on
MaxPlayers == 3

----------------------------------------------------------------------------
(* Cells.  A missing value (NaN, NaT) is the empty tuple; a present value  *)
(* v is <<v>>, a date is <<y, m, d>>, a month-day key is <<m, d>>.         *)

NaN == <<>>

IsNaN(x) == x = NaN

\* a cell of the "#" column as read_csv delivers it
IntCell(v) == [kind |-> "int", v |-> v]
TextCell == [kind |-> "text", v |-> 0]

\* a cell of the DOB column: the text "d/m/y", or text that is no date
DateCell(d, m, y) == [kind |-> "dmy", d |-> d, m |-> m, y |-> y]
JunkCell == [kind |-> "text", d |-> 0, m |-> 0, y |-> 0]

----------------------------------------------------------------------------
(* Sequence helpers *)

Range(s) == {s[i] : i \in 1..Len(s)}

Min(S) == CHOOSE x \in S : \A y \in S : x <= y

\* every sequence that lists the set S once each
RECURSIVE Perms(_)
Perms(S) ==
    IF S = {} THEN {<<>>}
    ELSE UNION {{<<x>> \o p : p \in Perms(S \ {x})} : x \in S}

\* Every sequence that lists the set S of <<key, item>> pairs once each in
\* non-decreasing key order.  Pairs of equal key may come in any order: the
\* default sort kind (quicksort) is not a stable sort.
RECURSIVE SortedEnums(_)
SortedEnums(S) ==
    IF S = {} THEN {<<>>}
    ELSE LET k == Min({p[1] : p \in S})
             B == {p \in S : p[1] = k}
         IN  {b \o r : b \in Perms(B), r \in SortedEnums(S \ B)}

\* DataFrame.head(n) for n >= 0
head(s, n) == IF Len(s) <= n THEN s ELSE SubSeq(s, 1, n)

----------------------------------------------------------------------------
(* Natural numbers of any size: the limbs in base Base, lowest first, with *)
(* no zero limb at the top (zero is the empty tuple).                      *)

LimbBits == 14
Base == 2^LimbBits

RECURSIVE BTrim(_)
BTrim(a) ==
    IF a = <<>> THEN a
    ELSE IF a[Len(a)] = 0 THEN BTrim(SubSeq(a, 1, Len(a) - 1)) ELSE a

RECURSIVE BFromInt(_)
BFromInt(n) == IF n = 0 THEN <<>> ELSE <<n % Base>> \o BFromInt(n \div Base)

RECURSIVE BToInt(_)
BToInt(a) == IF a = <<>> THEN 0 ELSE a[1] + Base * BToInt(Tail(a))

BLimb(a, i) == IF i <= Len(a) THEN a[i] ELSE 0

RECURSIVE BAddR(_, _, _, _)
BAddR(a, b, i, c) ==
    IF i > Len(a) /\ i > Len(b) THEN (IF c = 0 THEN <<>> ELSE <<c>>)
    ELSE LET t == BLimb(a, i) + BLimb(b, i) + c
         IN  <<t % Base>> \o BAddR(a, b, i + 1, t \div Base)

BAdd(a, b) == BAddR(a, b, 1, 0)

RECURSIVE BSubR(_, _, _, _)
BSubR(a, b, i, c) ==
    IF i > Len(a) THEN <<>>
    ELSE LET t == BLimb(a, i) - BLimb(b, i) - c
         IN  IF t < 0 THEN <<t + Base>> \o BSubR(a, b, i + 1, 1)
             ELSE <<t>> \o BSubR(a, b, i + 1, 0)

\* a - b for a >= b
BSub(a, b) == BTrim(BSubR(a, b, 1, 0))

RECURSIVE BCmpR(_, _, _)
BCmpR(a, b, i) ==
    IF i = 0 THEN 0
    ELSE IF a[i] < b[i] THEN -1
    ELSE IF a[i] > b[i] THEN 1
    ELSE BCmpR(a, b, i - 1)

\* -1, 0 or 1 as a < b, a = b or a > b
BCmp(a, b) ==
    IF Len(a) < Len(b) THEN -1
    ELSE IF Len(a) > Len(b) THEN 1
    ELSE BCmpR(a, b, Len(a))

RECURSIVE BMulSmallR(_, _, _, _)
BMulSmallR(a, k, i, c) ==
    IF i > Len(a) THEN BFromInt(c)
    ELSE LET t == a[i] * k + c
         IN  <<t % Base>> \o BMulSmallR(a, k, i + 1, t \div Base)

\* a * k for 0 <= k < 2^16
BMulSmall(a, k) == BTrim(BMulSmallR(a, k, 1, 0))

Zeros(n) == [i \in 1..n |-> 0]

RECURSIVE BMulR(_, _, _)
BMulR(a, b, i) ==
    IF i > Len(b) THEN <<>>
    ELSE BAdd(BTrim(Zeros(i - 1) \o BMulSmall(a, b[i])), BMulR(a, b, i + 1))

BMul(a, b) == BMulR(a, b, 1)

RECURSIVE BDivR(_, _, _, _)
BDivR(a, k, i, r) ==
    IF i = 0 THEN <<<<>>, r>>
    ELSE LET cur == r * Base + a[i]
             rest == BDivR(a, k, i - 1, cur % k)
         IN  <<Append(rest[1], cur \div k), rest[2]>>

\* <<a \div k, a % k>> for 0 < k < 2^16
BDivSmall(a, k) ==
    LET qr == BDivR(a, k, Len(a), 0) IN <<BTrim(qr[1]), qr[2]>>

RECURSIVE IntBits(_)
IntBits(n) == IF n = 0 THEN 0 ELSE 1 + IntBits(n \div 2)

\* the number of bits of a
BBits(a) == IF a = <<>> THEN 0 ELSE (Len(a) - 1) * LimbBits + IntBits(a[Len(a)])

\* a * 2^n
BShl(a, n) ==
    IF a = <<>> THEN a
    ELSE Zeros(n \div LimbBits) \o BMulSmall(a, 2^(n % LimbBits))

\* a \div 2^n
BShr(a, n) ==
    IF Len(a) <= n \div LimbBits THEN <<>>
    ELSE BDivSmall(SubSeq(a, n \div LimbBits + 1, Len(a)), 2^(n % LimbBits))[1]

\* a % 2^n
BLow(a, n) == BSub(a, BShl(BShr(a, n), n))

BOdd(a) == a # <<>> /\ a[1] % 2 = 1

----------------------------------------------------------------------------
(* Python floats (IEEE 754 binary64, round to nearest, ties to even).  A   *)
(* float is [s, m, e] of value (-1)^s * m * 2^e with m = 0, e = 0 or       *)
(* 2^52 <= m < 2^53.  No value of the program leaves the normal range.     *)

MantBits == 53

\* the float nearest to (-1)^s * (M + f) * 2^E, where 0 <= f < 1 and
\* sticky says f > 0; with sticky, M has more than MantBits + 1 bits
RoundPack(s, M, E, sticky) ==
    IF M = <<>> THEN [s |-> s, m |-> <<>>, e |-> 0]
    ELSE LET L == BBits(M) IN
         IF L <= MantBits
         THEN [s |-> s, m |-> BShl(M, MantBits - L), e |-> E - (MantBits - L)]
         ELSE LET k == L - MantBits
                  q == BShr(M, k)
                  half == BCmp(BLow(M, k), BShl(<<1>>, k - 1))
                  up == half = 1 \/ (half = 0 /\ (sticky \/ BOdd(q)))
                  q1 == IF up THEN BAdd(q, <<1>>) ELSE q
              IN  IF BBits(q1) > MantBits
                  THEN [s |-> s, m |-> BShr(q1, 1), e |-> E + k + 1]
                  ELSE [s |-> s, m |-> q1, e |-> E + k]

Abs(n) == IF n < 0 THEN 0 - n ELSE n

\* float(n)
FFromInt(n) == RoundPack(IF n < 0 THEN 1 ELSE 0, BFromInt(Abs(n)), 0, FALSE)

\* a / b of two ints, 0 < b < 2^16: the quotient correctly rounded
FDivInt(a, b) ==
    LET qr == BDivSmall(BShl(BFromInt(Abs(a)), 5 * LimbBits), b)
    IN  RoundPack(IF a < 0 THEN 1 ELSE 0, qr[1], 0 - 5 * LimbBits, qr[2] # 0)

FIsZero(x) == x.m = <<>>

FNeg(x) == [x EXCEPT !.s = 1 - x.s]

FAbs(x) == [x EXCEPT !.s = 0]

\* x * y
FMul(x, y) == RoundPack((x.s + y.s) % 2, BMul(x.m, y.m), x.e + y.e, FALSE)

\* -1, 0 or 1 as |x| < |y|, |x| = |y| or |x| > |y|
MagCmp(x, y) ==
    IF FIsZero(x) \/ FIsZero(y)
    THEN (IF FIsZero(x) /\ FIsZero(y) THEN 0 ELSE IF FIsZero(x) THEN -1 ELSE 1)
    ELSE IF x.e < y.e THEN -1
    ELSE IF x.e > y.e THEN 1
    ELSE BCmp(x.m, y.m)

\* x < y
FLt(x, y) ==
    IF FIsZero(x) /\ FIsZero(y) THEN FALSE
    ELSE IF x.s # y.s THEN (IF FIsZero(x) THEN y.s = 0
                            ELSE IF FIsZero(y) THEN x.s = 1
                            ELSE x.s = 1)
    ELSE IF x.s = 0 THEN MagCmp(x, y) = -1 ELSE MagCmp(x, y) = 1

\* x <= y
FLe(x, y) == ~FLt(y, x)

\* x == y (0.0 == -0.0)
FEq(x, y) == ~FLt(x, y) /\ ~FLt(y, x)

\* when the exponents differ by more than this, the smaller operand is
\* below a quarter of the last place of the larger and the sum rounds to it
FarApart == 64

\* x + y, for |x| >= |y| > 0
FAddOrdered(x, y) ==
    IF x.e - y.e > FarApart THEN x
    ELSE LET X == BShl(x.m, x.e - y.e)
         IN  IF x.s = y.s THEN RoundPack(x.s, BAdd(X, y.m), y.e, FALSE)
             ELSE IF BCmp(X, y.m) = 0 THEN [s |-> 0, m |-> <<>>, e |-> 0]
             ELSE RoundPack(x.s, BSub(X, y.m), y.e, FALSE)

\* x + y
FAdd(x, y) ==
    IF FIsZero(y) THEN (IF FIsZero(x) /\ x.s # y.s THEN [x EXCEPT !.s = 0] ELSE x)
    ELSE IF FIsZero(x) THEN y
    ELSE IF MagCmp(x, y) >= 0 THEN FAddOrdered(x, y) ELSE FAddOrdered(y, x)

\* x - y
FSub(x, y) == FAdd(x, FNeg(y))

\* f"{x:.2f}" for x >= 0: the hundredths of the decimal nearest to x (ties
\* to even), so that 5073 stands for "50.73"
Format2f(x) ==
    IF FIsZero(x) THEN 0
    ELSE LET N == BMul(x.m, BFromInt(100)) IN
         IF x.e >= 0 THEN BToInt(BShl(N, x.e))
         ELSE LET k == 0 - x.e
                  q == BShr(N, k)
                  half == IF k = 0 THEN -1 ELSE BCmp(BLow(N, k), BShl(<<1>>, k - 1))
                  up == half = 1 \/ (half = 0 /\ BOdd(q))
              IN  BToInt(q) + (IF up THEN 1 ELSE 0)

----------------------------------------------------------------------------
(* calculate_theoretical_probability *)

\* the days of the year of the formula
DaysPerYear == 365

\* the factor (366 - i) / 366, a year of 366 days
ProbStep_LeapYear(prob_no_match, i) ==
    FMul(prob_no_match, FDivInt(DaysPerYear + 1 - i, DaysPerYear + 1))

\* the factor (366 - i) / 365
ProbStep_OffByOne(prob_no_match, i) ==
    FMul(prob_no_match, FDivInt(DaysPerYear + 1 - i, DaysPerYear))

\* one pass of the loop body: prob_no_match *= (365 - i) / 365
ProbStep(prob_no_match, i) ==
    FMul(prob_no_match, FDivInt(DaysPerYear - i, DaysPerYear))

\* prob_no_match after the passes i, i + 1, .. n - 1 of the loop; each pass
\* computes its product before the next one starts
RECURSIVE ProbLoop(_, _, _)
ProbLoop(prob_no_match, i, n) ==
    IF i >= n THEN prob_no_match
    ELSE LET next == ProbStep(prob_no_match, i)
         IN  IF next = next THEN ProbLoop(next, i + 1, n) ELSE next

\* return prob_no_match
ProbReturn_NoComplement(prob_no_match) == prob_no_match

\* return 1 - prob_no_match
ProbReturn(prob_no_match) == FSub(FFromInt(1), prob_no_match)

calculate_theoretical_probability(n) ==
    ProbReturn(ProbLoop(FFromInt(1), 0, n))

----------------------------------------------------------------------------
(* _preprocess *)

IsLeap(y) == (y % 4 = 0 /\ y % 100 # 0) \/ y % 400 = 0

DaysIn(m, y) ==
    IF m = 2 THEN (IF IsLeap(y) THEN 29 ELSE 28)
    ELSE IF m \in {4, 6, 9, 11} THEN 30 ELSE 31

\* pd.to_datetime(..., dayfirst=True, errors="coerce") of one cell
to_datetime(c) ==
    IF c.kind = "dmy" /\ c.m \in 1..12 /\ c.d \in 1..DaysIn(c.m, c.y)
    THEN <<c.y, c.m, c.d>>
    ELSE NaN

\* the format "%Y-%m-%d" for "%m-%d"
strftime_WithYear(dt) == dt

\* .dt.strftime("%m-%d") of one value
strftime_md(dt) == IF IsNaN(dt) THEN NaN ELSE <<dt[2], dt[3]>>

\* pd.to_numeric(..., errors="coerce") of one cell
to_numeric(c) == IF c.kind = "int" THEN <<c.v>> ELSE NaN

\* _preprocess applied to the row with index label i of the file
PreprocessRow(i, raw) ==
    [index       |-> i,
     src_page    |-> raw.src_page,
     num         |-> to_numeric(raw.num),
     name        |-> raw.name,
     DOB         |-> raw.DOB,
     DOB_dt      |-> to_datetime(raw.DOB),
     birthday_md |-> strftime_md(to_datetime(raw.DOB))]

_preprocess(file) == [i \in 1..Len(file) |-> PreprocessRow(i, file[i])]

----------------------------------------------------------------------------
(* The tables an analyzer is constructed from *)

\* a CSV row; the player of row i of the file is named <<i>>
RawRow(page, num, dob, i) ==
    [src_page |-> page, num |-> num, DOB |-> dob, name |-> <<i>>]

DobA  == DateCell(5, 3, 1990)
DobA2 == DateCell(5, 3, 1995)
DobB  == DateCell(3, 5, 1990)
DobBad == DateCell(31, 2, 1990)

Kind(page, num, dob) == [src_page |-> page, num |-> num, DOB |-> dob]

\* the rows a free-form table is made of
RowKinds ==
    {Kind(1, IntCell(1), DobA),    Kind(1, IntCell(2), DobA2),
     Kind(1, IntCell(2), DobB),    Kind(1, IntCell(1), JunkCell),
     Kind(1, IntCell(1), DobBad),  Kind(1, IntCell(23), DobB),
     Kind(1, IntCell(23), DobA),   Kind(1, IntCell(24), DobA),
     Kind(1, IntCell(0), DobA),    Kind(1, TextCell, DobA),
     Kind(2, IntCell(1), DobA),    Kind(2, IntCell(2), DobA2),
     Kind(2, IntCell(2), DobB)}

SmallFiles == UNION {[1..n -> RowKinds] : n \in 0..MaxRows}

SmallTable(f) ==
    [i \in 1..Len(f) |->
        RawRow(f[i].src_page, f[i].num, f[i].DOB, i)]

\* self.squad_size = 23
DefaultSquadSize == 23

\* Full rosters, one per page, numbered 1.. in file order like the squad
\* lists the analyzer is run on.  Member i is born on the i-th of January.
GroupKinds == {"distinct", "pair", "twopairs", "short", "unparsed", "dupnum"}

RosterLen(kind) ==
    CASE kind = "short"  -> DefaultSquadSize - 1
      [] kind = "dupnum" -> DefaultSquadSize + 1
      [] OTHER           -> DefaultSquadSize

RosterNum(kind, i) == IF i > DefaultSquadSize THEN DefaultSquadSize ELSE i

RosterDob(kind, i) ==
    CASE kind \in {"pair", "twopairs", "short"} /\ i = 17 -> DateCell(4, 1, 1985)
      [] kind = "twopairs" /\ i = 20                      -> DateCell(9, 1, 1985)
      [] kind = "unparsed" /\ i \in {5, 6}                -> JunkCell
      [] kind = "dupnum" /\ i = DefaultSquadSize + 1      -> DateCell(4, 1, 1985)
      [] OTHER                                            -> DateCell(i, 1, 1990 + (i % 3))

RECURSIVE BigTable(_, _, _)
BigTable(kinds, g, acc) ==
    IF g > Len(kinds) THEN acc
    ELSE BigTable(kinds, g + 1,
            acc \o [i \in 1..RosterLen(kinds[g]) |->
                      RawRow(g, IntCell(RosterNum(kinds[g], i)),
                             RosterDob(kinds[g], i), Len(acc) + i)])

BigFiles == UNION {[1..n -> GroupKinds] : n \in 1..MaxGroups}

\* every table the model constructs an analyzer from
Tables ==
    {SmallTable(f) : f \in SmallFiles} \cup {BigTable(k, 1, <<>>) : k \in BigFiles}

----------------------------------------------------------------------------
(* run_analysis *)

\* the literal 23 of the row filter
FilterMax == 23

\* (self.df["#"] >= 1) & (self.df["#"] <= 23): a comparison with NaN is False
InFilter(r) == ~IsNaN(r.num) /\ r.num[1] >= 1 /\ r.num[1] <= FilterMax

FilterRows(table) == SelectSeq(table, InFilter)

\* the keys of players.groupby("src_page"), which iterates in key order
RECURSIVE SortedKeys(_)
SortedKeys(S) ==
    IF S = {} THEN <<>> ELSE <<Min(S)>> \o SortedKeys(S \ {Min(S)})

GroupKeys(rows) == SortedKeys({r.src_page : r \in Range(rows)})

\* the rows of one group, in the order of the table
GroupRows(rows, key) == LET InGroup(r) == r.src_page = key IN SelectSeq(rows, InGroup)

\* the rows as they are, not sorted
sort_values_Unsorted(rows) == {rows}

\* squad_data.sort_values("#"): every order the sort may produce
sort_values(rows) ==
    LET S == {<<r.num[1], r>> : r \in Range(rows)}
    IN  {[i \in 1..Len(e) |-> e[i][2]] : e \in SortedEnums(S)}

\* value_counts(dropna=False)
Keys_WithNaN(squad) == {r.birthday_md : r \in Range(squad)}

\* squad_players["birthday_md"].value_counts(): NaN is not counted
Keys(squad) == {r.birthday_md : r \in Range(squad)} \ {NaN}

Count(squad, key) == Cardinality({i \in 1..Len(squad) : squad[i].birthday_md = key})

\* bday_counts[bday_counts > 1].index.tolist(): value_counts lists the keys
\* by falling count, so the keys that pass the test come by falling count
shared_bdays(squad) ==
    LET S == {<<0 - Count(squad, k), k>> : k \in {x \in Keys(squad) : Count(squad, x) > 1}}
    IN  {[i \in 1..Len(e) |-> e[i][2]] : e \in SortedEnums(S)}

\* the rows of the whole table for the rows of the squad
matching_players_AllRows(squad, bday) ==
    LET Same(r) == r.birthday_md = bday /\ r.src_page = squad[1].src_page
    IN  SelectSeq(players, Same)

\* squad_players[squad_players["birthday_md"] == bday]
matching_players(squad, bday) ==
    LET Same(r) == r.birthday_md = bday IN SelectSeq(squad, Same)

\* matching_players["PLAYER NAME"].tolist()
Names(rows) == [i \in 1..Len(rows) |-> rows[i].name]

\* print(f"  - {bday}: {', '.join(names)}")
MatchLine(squad, bday) ==
    [t |-> "match", bday |-> bday, names |-> Names(matching_players(squad, bday))]

\* print(f"\nSquad (Page {squad_id}) has matches:")
SquadLine(squad_id) == [t |-> "squad", id |-> squad_id]

\* the lines of the loop over shared_bdays
MatchLines(squad, shared) ==
    [i \in 1..Len(shared) |-> MatchLine(squad, shared[i])]

----------------------------------------------------------------------------
(* print_summary and the values run_analysis hands it *)

\* the literal 23 of the call of calculate_theoretical_probability
TheoryN == 23

\* the literal 5 of the verdict
Threshold == 5

Hundred == FFromInt(100)

\* what a / b raises when b is 0
ZeroDivisionError == [raised |-> "ZeroDivisionError"]

\* a / b of two ints
TrueDiv(a, b) == IF b = 0 THEN ZeroDivisionError ELSE FDivInt(a, b)

\* the ratio without the factor 100
observed_prob_Ratio(matches, total) ==
    IF total > 0 THEN TrueDiv(matches, total) ELSE FFromInt(0)

\* the expression without its guard
observed_prob_Unguarded(matches, total) ==
    IF TrueDiv(matches, total) = ZeroDivisionError THEN ZeroDivisionError
    ELSE FMul(TrueDiv(matches, total), Hundred)

\* (squads_with_matches / total_squads) * 100 if total_squads > 0 else 0
observed_prob(matches, total) ==
    IF total > 0 THEN FMul(TrueDiv(matches, total), Hundred) ELSE FFromInt(0)

\* self.calculate_theoretical_probability(23) * 100
theory_prob == FMul(calculate_theoretical_probability(TheoryN), Hundred)

\* diff = abs(observed - theory)
SummaryDiff(observed, theory) == FAbs(FSub(observed, theory))

\* the test diff <= 5
conclusion_Inclusive(observed, theory) ==
    IF FLe(SummaryDiff(observed, theory), FFromInt(Threshold))
    THEN "Data aligns closely."
    ELSE "Notable deviation due to small sample size."

\* the sentence print_summary chooses
conclusion(observed, theory) ==
    IF FLt(SummaryDiff(observed, theory), FFromInt(Threshold))
    THEN "Data aligns closely."
    ELSE "Notable deviation due to small sample size."

\* what print_summary prints, as one record
print_summary(total, matches, observed, theory) ==
    [t          |-> "summary",
     total      |-> total,
     matches    |-> matches,
     observed   |-> Format2f(observed),
     theory     |-> Format2f(theory),
     conclusion |-> conclusion(observed, theory)]

HeaderLine == [t |-> "header"]

NoCall == [total |-> 0, matches |-> 0, observed |-> FFromInt(0), theory |-> FFromInt(0)]

NoCalc == [n |-> 0, i |-> 0, prob_no_match |-> FFromInt(0), ret |-> FFromInt(0)]

\* what a call of run_analysis left behind: its arguments to print_summary,
\* its counters, the lines printed up to its end and the table
NoFirst == [call |-> NoCall, total |-> 0, matches |-> 0, out |-> <<>>, df |-> <<>>]

\* The history of the calls of run_analysis.  run numbers the call (0 when
\* calls are not told apart); tie is how the sort routine of this build
\* leaves rows of one roster number: "any" for no rule, "input" for the
\* order of the table, "reverse" for the opposite; log lists the passes of
\* the loop with their squads; first is what the first call left behind.
NoAgain == [run |-> 0, tie |-> "any", log |-> <<>>, first |-> NoFirst]

\* a file that does not exist
NoFile == [exists |-> FALSE, lines |-> <<>>]

\* cricinfo_batch_scraper has not been called
NoScr == [pc |-> "idle", df |-> <<>>, visited |-> {}, players_to_scrape |-> <<>>,
          i |-> 0, successful |-> 0, failed |-> 0, skipped |-> 0]

\* what the runs of cricinfo_batch_scraper did: the number of the run, the
\* ids of the checkpoint file when it began, the ids whose scrape it
\* started, the rows that were given a status in any run, how each run ended
NoHist == [run |-> 0, at_start |-> {}, started |-> {}, rows |-> {}, ended |-> <<>>]

ScraperIdle ==
    /\ scr = NoScr
    /\ files = [input_csv |-> NoFile, output_csv |-> NoFile, checkpoint_file |-> NoFile]
    /\ hist = NoHist

\* the sorted rows e have their ties the way this build's sort leaves them
TieRule(e) ==
    \/ again.tie = "any"
    \/ /\ again.tie = "input"
       /\ \A i, j \in 1..Len(e) :
             (i < j /\ e[i].num = e[j].num) => e[i].index < e[j].index
    \/ /\ again.tie = "reverse"
       /\ \A i, j \in 1..Len(e) :
             (i < j /\ e[i].num = e[j].num) => e[i].index > e[j].index

----------------------------------------------------------------------------
(* The analyzer: construction, configuration, run_analysis *)

\* analyzer = BirthdayParadoxAnalyzer(file_path)
Init ==
    /\ df \in {_preprocess(t) : t \in Tables}
    /\ squad_size = DefaultSquadSize
    /\ pc = "constructed"
    /\ players = <<>>
    /\ squads = <<>>
    /\ visited = <<>>
    /\ squad_players = <<>>
    /\ total_squads = 0
    /\ squads_with_matches = 0
    /\ out = <<>>
    /\ call = NoCall
    /\ calc = NoCalc
    /\ again = NoAgain
    /\ ScraperIdle

\* analyzer.squad_size = k, by the caller before it runs the analysis
SetSquadSize(k) ==
    /\ pc = "constructed"
    /\ squad_size' = k
    /\ UNCHANGED <<df, pc, players, squads, visited, squad_players,
                   total_squads, squads_with_matches, out, call, calc, again,
                   scr, files, hist>>

\* the place in the squad of the first member born on the day bday
FirstAt(squad, bday) ==
    Min({i \in 1..Len(squad) : squad[i].birthday_md = bday})

\* the shared birthdays e have those of one count the way this build's sort
\* leaves them: value_counts sorts its counts with the same routine
CountTieRule(squad, e) ==
    \/ again.tie = "any"
    \/ /\ again.tie = "input"
       /\ \A i, j \in 1..Len(e) :
             (i < j /\ Count(squad, e[i]) = Count(squad, e[j]))
                 => FirstAt(squad, e[i]) < FirstAt(squad, e[j])
    \/ /\ again.tie = "reverse"
       /\ \A i, j \in 1..Len(e) :
             (i < j /\ Count(squad, e[i]) = Count(squad, e[j]))
                 => FirstAt(squad, e[i]) > FirstAt(squad, e[j])

\* the history as a call of run_analysis starts: a second call on the
\* analyzer keeps what the first one left behind
Called ==
    IF pc = "done"
    THEN [again EXCEPT !.run = 2,
                       !.first = [call |-> call, total |-> total_squads,
                                  matches |-> squads_with_matches,
                                  out |-> out, df |-> df]]
    ELSE again

\* the counters kept from the call before, as attributes set once would be
RunAnalysisBegin_KeepsCounters ==
    /\ pc = "constructed" \/ (pc = "done" /\ again.run = 1)
    /\ players' = FilterRows(df)
    /\ squads' = GroupKeys(FilterRows(df))
    /\ visited' = <<>>
    /\ out' = Append(out, HeaderLine)
    /\ pc' = "loop"
    /\ again' = Called
    /\ UNCHANGED <<df, squad_size, squad_players, call, calc,
                   total_squads, squads_with_matches, scr, files, hist>>

\* run_analysis up to its loop: filter, group, reset the counters, print;
\* called on a new analyzer or, where calls are told apart, once more
RunAnalysisBegin ==
    /\ pc = "constructed" \/ (pc = "done" /\ again.run = 1)
    /\ players' = FilterRows(df)
    /\ squads' = GroupKeys(FilterRows(df))
    /\ visited' = <<>>
    /\ total_squads' = 0
    /\ squads_with_matches' = 0
    /\ out' = Append(out, HeaderLine)
    /\ pc' = "loop"
    /\ again' = Called
    /\ UNCHANGED <<df, squad_size, squad_players, call, calc, scr, files, hist>>

\* no test
TooShort_Never(squad, size) == FALSE

\* the test with <= for <
TooShort_OffByOne(squad, size) == Len(squad) <= size

\* if len(squad_players) < self.squad_size
TooShort(squad, size) == Len(squad) < size

\* one pass of the loop whose squad is too short: continue
LoopSkip(squad_id, sorted) ==
    /\ TooShort(head(sorted, squad_size), squad_size)
    /\ squad_players' = head(sorted, squad_size)
    /\ UNCHANGED <<total_squads, squads_with_matches, out, pc>>

\* one pass of the loop that counts the squad and reports its matches
LoopCount(squad_id, sorted) ==
    LET squad == head(sorted, squad_size) IN
    /\ ~TooShort(squad, squad_size)
    /\ squad_players' = squad
    /\ total_squads' = total_squads + 1
    /\ \E shared \in {e \in shared_bdays(squad) : CountTieRule(squad, e)} :
          IF shared = <<>>
          THEN UNCHANGED <<squads_with_matches, out, pc>>
          ELSE /\ squads_with_matches' = squads_with_matches + 1
               /\ out' = out \o <<SquadLine(squad_id)>> \o MatchLines(squad, shared)
               /\ UNCHANGED pc

\* for squad_id, squad_data in squads: one pass
LoopPass ==
    /\ pc = "loop"
    /\ squads # <<>>
    /\ squads' = Tail(squads)
    /\ visited' = Append(visited, Head(squads))
    /\ \E sorted \in {e \in sort_values(GroupRows(players, Head(squads))) :
                            TieRule(e)} :
          \/ LoopSkip(Head(squads), sorted)
          \/ LoopCount(Head(squads), sorted)
    /\ again' = IF again.run = 0 THEN again
                ELSE [again EXCEPT !.log = Append(@,
                         [run |-> again.run, squad_id |-> Head(squads),
                          squad_players |-> squad_players',
                          counted |-> total_squads' # total_squads])]
    /\ UNCHANGED <<df, squad_size, players, call, calc, scr, files, hist>>

\* run_analysis after its loop: the two probabilities and print_summary;
\* an exception raised on the way ends the run there
RunAnalysisEnd ==
    /\ pc = "loop"
    /\ squads = <<>>
    /\ IF observed_prob(squads_with_matches, total_squads) = ZeroDivisionError
       THEN /\ pc' = "raised"
            /\ UNCHANGED <<call, out>>
       ELSE /\ call' = [total    |-> total_squads,
                        matches  |-> squads_with_matches,
                        observed |-> observed_prob(squads_with_matches, total_squads),
                        theory   |-> theory_prob]
            /\ out' = Append(out, print_summary(total_squads, squads_with_matches,
                               observed_prob(squads_with_matches, total_squads),
                               theory_prob))
            /\ pc' = "done"
    /\ UNCHANGED <<df, squad_size, players, squads, visited, squad_players,
                   total_squads, squads_with_matches, calc, again,
                   scr, files, hist>>

Next ==
    \/ \E k \in 1..MaxSquad : SetSquadSize(k)
    \/ RunAnalysisBegin
    \/ LoopPass
    \/ RunAnalysisEnd

Spec == Init /\ [][Next]_vars

----------------------------------------------------------------------------
(* run_analysis on a table of three rosters: A, where two members share a  *)
(* birthday, B, where none do, and C, which is three members short         *)

\* the rosters in the order of their pages
ScenarioOrders == Perms({"A", "B", "C"})

ScenarioLen(kind) == IF kind = "C" THEN 20 ELSE DefaultSquadSize

\* member i is born on the i-th of January; in A, member b on the day of
\* member a, in another year
ScenarioDob(kind, i, a, b) ==
    IF kind = "A" /\ i = b THEN DateCell(a, 1, 1985)
    ELSE DateCell(i, 1, 1990 + (i % 3))

RECURSIVE ScenarioTable(_, _, _, _, _)
ScenarioTable(order, a, b, g, acc) ==
    IF g > Len(order) THEN acc
    ELSE ScenarioTable(order, a, b, g + 1,
            acc \o [i \in 1..ScenarioLen(order[g]) |->
                      RawRow(g, IntCell(i), ScenarioDob(order[g], i, a, b),
                             Len(acc) + i)])

ScenarioTables ==
    {ScenarioTable(o, p[1], p[2], 1, <<>>) :
        o \in ScenarioOrders,
        p \in {q \in (1..MaxShare) \X (1..MaxShare) : q[1] # q[2]}}

InitScenario ==
    /\ df \in {_preprocess(t) : t \in ScenarioTables}
    /\ squad_size = DefaultSquadSize
    /\ pc = "constructed"
    /\ players = <<>>
    /\ squads = <<>>
    /\ visited = <<>>
    /\ squad_players = <<>>
    /\ total_squads = 0
    /\ squads_with_matches = 0
    /\ out = <<>>
    /\ call = NoCall
    /\ calc = NoCalc
    /\ again = NoAgain
    /\ ScraperIdle

NextScenario == RunAnalysisBegin \/ LoopPass \/ RunAnalysisEnd

SpecScenario == InitScenario /\ [][NextScenario]_vars

----------------------------------------------------------------------------
(* run_analysis called twice on one analyzer *)

\* the sort routines told apart: each leaves ties in one fixed way
TieKinds == {"input", "reverse"}

\* the tables run_analysis is called twice on: the shorter free-form tables
\* and the one-page rosters
TwiceTables ==
    {SmallTable(f) : f \in {g \in SmallFiles : Len(g) < MaxRows}}
        \cup {BigTable(<<k>>, 1, <<>>) : k \in GroupKinds}

\* a new analyzer whose calls of run_analysis are told apart, under a build
\* whose sort leaves ties one way
InitTwice ==
    /\ df \in {_preprocess(t) : t \in TwiceTables}
    /\ squad_size = DefaultSquadSize
    /\ pc = "constructed"
    /\ players = <<>>
    /\ squads = <<>>
    /\ visited = <<>>
    /\ squad_players = <<>>
    /\ total_squads = 0
    /\ squads_with_matches = 0
    /\ out = <<>>
    /\ call = NoCall
    /\ calc = NoCalc
    /\ again \in {[NoAgain EXCEPT !.run = 1, !.tie = t] : t \in TieKinds}
    /\ ScraperIdle

SpecTwice == InitTwice /\ [][Next]_vars

----------------------------------------------------------------------------
(* calculate_theoretical_probability(n), called on its own *)

\* the analyzer state of a specification that calls one method directly
Idle ==
    /\ df = <<>>
    /\ squad_size = DefaultSquadSize
    /\ players = <<>>
    /\ squads = <<>>
    /\ visited = <<>>
    /\ squad_players = <<>>
    /\ total_squads = 0
    /\ squads_with_matches = 0
    /\ out = <<>>
    /\ again = NoAgain

\* the call with argument n, after prob_no_match = 1.0
InitTheory ==
    /\ Idle
    /\ ScraperIdle
    /\ pc = "calc_loop"
    /\ call = NoCall
    /\ calc \in {[n |-> n, i |-> 0, prob_no_match |-> FFromInt(1), ret |-> FFromInt(0)] :
                    n \in 0..MaxN}

\* for i in range(n): one pass
CalcPass ==
    /\ pc = "calc_loop"
    /\ calc.i < calc.n
    /\ calc' = [calc EXCEPT !.prob_no_match = ProbStep(calc.prob_no_match, calc.i),
                            !.i = calc.i + 1]
    /\ UNCHANGED <<df, squad_size, pc, players, squads, visited, squad_players,
                   total_squads, squads_with_matches, out, call, again,
                   scr, files, hist>>

\* return 1 - prob_no_match
CalcReturn ==
    /\ pc = "calc_loop"
    /\ calc.i >= calc.n
    /\ calc' = [calc EXCEPT !.ret = ProbReturn(calc.prob_no_match)]
    /\ pc' = "calc_done"
    /\ UNCHANGED <<df, squad_size, players, squads, visited, squad_players,
                   total_squads, squads_with_matches, out, call, again,
                   scr, files, hist>>

NextTheory == CalcPass \/ CalcReturn

SpecTheory == InitTheory /\ [][NextTheory]_vars

----------------------------------------------------------------------------
(* print_summary(total, matches, observed, theory), called on its own *)

\* the percentages k / 2, for k up to twice MaxPercent
Percentages == {FDivInt(k, 2) : k \in 0..(2 * MaxPercent)}

SummaryCalls ==
    [total : {2}, matches : {1}, observed : Percentages,
     theory : {theory_prob, FFromInt(50), FDivInt(101, 2)}]

InitSummary ==
    /\ Idle
    /\ ScraperIdle
    /\ pc = "summary_call"
    /\ call \in SummaryCalls
    /\ calc = NoCalc

PrintSummary ==
    /\ pc = "summary_call"
    /\ out' = Append(out, print_summary(call.total, call.matches,
                                        call.observed, call.theory))
    /\ pc' = "summary_done"
    /\ UNCHANGED <<df, squad_size, players, squads, visited, squad_players,
                   total_squads, squads_with_matches, call, calc, again,
                   scr, files, hist>>

NextSummary == PrintSummary

SpecSummary == InitSummary /\ [][NextSummary]_vars

----------------------------------------------------------------------------
(* cricinfo_batch_scraper (src/loop_scraper.py), run and run again on the   *)
(* same input_csv, output_csv and checkpoint_file                           *)

\* a cell of a key_cricinfo column: a float (the column has gaps), text, or
\* a gap
FloatCell(v) == [kind |-> "float", v |-> v]
StrCell(v) == [kind |-> "str", v |-> v]
EmptyCell == [kind |-> "nan", v |-> 0]

notna(cell) == cell.kind # "nan"

\* str(int(raw_id)) of a float, str(raw_id).strip() of anything else: the
\* digits, as a line of the checkpoint file holds them
IdText(raw_id) == <<raw_id.v>>

\* the rows of people.csv by their three id columns
PlayerKinds ==
    {[key_cricinfo |-> FloatCell(1), key_cricinfo_2 |-> EmptyCell, key_cricinfo_3 |-> EmptyCell],
     [key_cricinfo |-> StrCell(2),   key_cricinfo_2 |-> EmptyCell, key_cricinfo_3 |-> EmptyCell],
     [key_cricinfo |-> EmptyCell,    key_cricinfo_2 |-> EmptyCell, key_cricinfo_3 |-> EmptyCell],
     [key_cricinfo |-> FloatCell(1), key_cricinfo_2 |-> EmptyCell, key_cricinfo_3 |-> FloatCell(2)]}

PeopleFiles == UNION {[1..n -> PlayerKinds] : n \in 0..MaxPlayers}

\* pd.read_csv(input_csv) and the new columns, set to None
LoadPeople(lines) ==
    [idx \in 1..Len(lines) |->
        [identifier        |-> idx,
         key_cricinfo      |-> lines[idx].key_cricinfo,
         key_cricinfo_2    |-> lines[idx].key_cricinfo_2,
         key_cricinfo_3    |-> lines[idx].key_cricinfo_3,
         scraped_full_name |-> NaN,
         scrape_status     |-> NaN]]

\* the lines of the checkpoint file, when there is one
LoadVisited(file) == IF file.exists THEN Range(file.lines) ELSE {}

\* the loop over cricinfo_cols: the id of the last column that has one, or
\* of the first whose id is not in visited, where the loop breaks
RECURSIVE PickId(_, _, _)
PickId(cells, seen, cricinfo_id) ==
    IF cells = <<>> THEN cricinfo_id
    ELSE IF ~notna(Head(cells)) THEN PickId(Tail(cells), seen, cricinfo_id)
    ELSE IF IdText(Head(cells)) \notin seen THEN IdText(Head(cells))
    ELSE PickId(Tail(cells), seen, IdText(Head(cells)))

\* the loop over df.iterrows() that collects players_to_scrape
RECURSIVE FindPlayers(_, _, _)
FindPlayers(rows, idx, seen) ==
    IF idx > Len(rows) THEN <<>>
    ELSE LET cricinfo_cols == <<rows[idx].key_cricinfo, rows[idx].key_cricinfo_2,
                               rows[idx].key_cricinfo_3>>
             cricinfo_id == PickId(cricinfo_cols, seen, NaN)
         IN  (IF IsNaN(rows[idx].scrape_status) /\ ~IsNaN(cricinfo_id)
              THEN <<[index |-> idx, cricinfo_id |-> cricinfo_id]>>
              ELSE <<>>)
             \o FindPlayers(rows, idx + 1, seen)

\* df.to_csv(output_csv, index=False)
to_csv(rows) == [exists |-> TRUE, lines |-> rows]

\* open(checkpoint_file, "a") and the write of one line
AppendLine(file, line) == [exists |-> TRUE, lines |-> Append(file.lines, line)]

\* the player of the pass in progress
Player == scr.players_to_scrape[scr.i]

InitScraper ==
    /\ Idle
    /\ pc = "scraper"
    /\ call = NoCall
    /\ calc = NoCalc
    /\ scr = NoScr
    /\ files \in {[input_csv |-> to_csv(f), output_csv |-> NoFile,
                   checkpoint_file |-> NoFile] : f \in PeopleFiles}
    /\ hist = NoHist

\* the analyzer, which the scraper does not touch
AnalyzerIdle ==
    UNCHANGED <<df, squad_size, pc, players, squads, visited, squad_players,
                total_squads, squads_with_matches, out, call, calc, again>>

\* cricinfo_batch_scraper(...) up to its loop, for the first time or again
\* after the run before has ended
ScraperBegin ==
    /\ scr.pc \in {"idle", "returned", "raised"}
    /\ hist.run < 2
    /\ LET rows == LoadPeople(files.input_csv.lines)
           seen == LoadVisited(files.checkpoint_file)
           todo == FindPlayers(rows, 1, seen)
       IN  /\ scr' = [pc |-> IF todo = <<>> THEN "returned" ELSE "top",
                      df |-> rows, visited |-> seen, players_to_scrape |-> todo,
                      i |-> 1, successful |-> 0, failed |-> 0, skipped |-> 0]
           /\ hist' = [run |-> hist.run + 1, at_start |-> seen, started |-> {},
                       rows |-> hist.rows,
                       ended |-> IF todo = <<>> THEN Append(hist.ended, "nothing")
                                 ELSE hist.ended]
    /\ UNCHANGED files
    /\ AnalyzerIdle

\* the head of a pass: skip a player whose id is in visited, else go on to
\* the scrape
PassTop ==
    /\ scr.pc = "top"
    /\ scr.i <= Len(scr.players_to_scrape)
    /\ IF Player.cricinfo_id \in scr.visited
       THEN /\ scr' = [scr EXCEPT !.skipped = @ + 1, !.i = @ + 1]
            /\ UNCHANGED hist
       ELSE /\ scr' = [scr EXCEPT !.pc = "try"]
            /\ hist' = [hist EXCEPT !.started = @ \cup {Player.cricinfo_id}]
    /\ UNCHANGED files
    /\ AnalyzerIdle

\* the row of the player with a status and, on success, the scraped fields
Scraped(rows, idx, status, full_name) ==
    [rows EXCEPT ![idx].scrape_status = status, ![idx].scraped_full_name = full_name]

\* get_profile() returned a profile: the fields and "success"
ScrapeSuccess ==
    /\ scr.pc = "try"
    /\ scr' = [scr EXCEPT !.df = Scraped(@, Player.index, <<"success">>,
                                         <<"profile", Player.cricinfo_id>>),
                          !.successful = @ + 1,
                          !.pc = "mark"]
    /\ hist' = [hist EXCEPT !.rows = @ \cup {Player.index}]
    /\ UNCHANGED files
    /\ AnalyzerIdle

\* get_profile() returned {"error": ...}
ScrapeError ==
    /\ scr.pc = "try"
    /\ scr' = [scr EXCEPT !.df = Scraped(@, Player.index, <<"error">>, NaN),
                          !.failed = @ + 1,
                          !.pc = "mark"]
    /\ hist' = [hist EXCEPT !.rows = @ \cup {Player.index}]
    /\ UNCHANGED files
    /\ AnalyzerIdle

\* a handler that sets the status and counts the failure, and no more
ExceptionHandler_Unmarked ==
    /\ scr' = [scr EXCEPT !.df = Scraped(@, Player.index, <<"error">>, NaN),
                          !.failed = @ + 1,
                          !.pc = "delay"]
    /\ UNCHANGED files

\* the handler of Exception: the status, visited.add and the checkpoint line
ExceptionHandler ==
    /\ scr' = [scr EXCEPT !.df = Scraped(@, Player.index, <<"error">>, NaN),
                          !.failed = @ + 1,
                          !.visited = @ \cup {Player.cricinfo_id},
                          !.pc = "delay"]
    /\ files' = [files EXCEPT !.checkpoint_file = AppendLine(@, Player.cricinfo_id)]

\* the scrape raised
ScrapeRaises ==
    /\ scr.pc = "try"
    /\ ExceptionHandler
    /\ hist' = [hist EXCEPT !.rows = @ \cup {Player.index}]
    /\ AnalyzerIdle

\* visited.add(cricinfo_id)
MarkVisited ==
    /\ scr.pc = "mark"
    /\ scr' = [scr EXCEPT !.visited = @ \cup {Player.cricinfo_id}, !.pc = "checkpoint"]
    /\ UNCHANGED <<files, hist>>
    /\ AnalyzerIdle

\* the line appended to the checkpoint file
SaveCheckpoint ==
    /\ scr.pc = "checkpoint"
    /\ files' = [files EXCEPT !.checkpoint_file = AppendLine(@, Player.cricinfo_id)]
    /\ scr' = [scr EXCEPT !.pc = "save"]
    /\ UNCHANGED hist
    /\ AnalyzerIdle

\* df.to_csv(output_csv) after each scrape
SaveProgress ==
    /\ scr.pc = "save"
    /\ files' = [files EXCEPT !.output_csv = to_csv(scr.df)]
    /\ scr' = [scr EXCEPT !.pc = "delay"]
    /\ UNCHANGED hist
    /\ AnalyzerIdle

\* KeyboardInterrupt inside the try block: save and return
Interrupted ==
    /\ scr.pc \in {"try", "mark", "checkpoint", "save"}
    /\ files' = [files EXCEPT !.output_csv = to_csv(scr.df)]
    /\ scr' = [scr EXCEPT !.pc = "returned"]
    /\ hist' = [hist EXCEPT !.ended = Append(@, "interrupted")]
    /\ AnalyzerIdle

\* the end of a pass: the delay before the next request, and on
PassEnd ==
    /\ scr.pc = "delay"
    /\ scr' = [scr EXCEPT !.i = @ + 1, !.pc = "top"]
    /\ UNCHANGED <<files, hist>>
    /\ AnalyzerIdle

\* KeyboardInterrupt in time.sleep, outside the try block: it ends the run
InterruptedInDelay ==
    /\ scr.pc = "delay"
    /\ scr.i < Len(scr.players_to_scrape)
    /\ scr' = [scr EXCEPT !.pc = "raised"]
    /\ hist' = [hist EXCEPT !.ended = Append(@, "interrupted")]
    /\ UNCHANGED files
    /\ AnalyzerIdle

\* after the loop: the final save
FinalSave ==
    /\ scr.pc = "top"
    /\ scr.i > Len(scr.players_to_scrape)
    /\ files' = [files EXCEPT !.output_csv = to_csv(scr.df)]
    /\ scr' = [scr EXCEPT !.pc = "returned"]
    /\ hist' = [hist EXCEPT !.ended = Append(@, "complete")]
    /\ AnalyzerIdle

NextScraper ==
    \/ ScraperBegin
    \/ PassTop
    \/ ScrapeSuccess
    \/ ScrapeError
    \/ ScrapeRaises
    \/ MarkVisited
    \/ SaveCheckpoint
    \/ SaveProgress
    \/ Interrupted
    \/ PassEnd
    \/ InterruptedInDelay
    \/ FinalSave

SpecScraper == InitScraper /\ [][NextScraper]_vars

----------------------------------------------------------------------------
(* What the claims speak of, read off the state without the operators of  *)
(* the analysis                                                            *)

\* the source groups of the loaded table
SourceGroups == {df[i].src_page : i \in 1..Len(df)}

\* run_analysis has filtered and grouped
Running == pc \in {"loop", "done"}

\* the rows of group k whose roster number passes the row filter, each row
\* counting, whatever its number and its date of birth
QualCount(k) ==
    Cardinality({i \in 1..Len(df) : df[i].src_page = k /\ InFilter(df[i])})

Eligible(k) == QualCount(k) >= squad_size

\* the places of the lines of a kind in the output
LinesOf(kind) == {j \in 1..Len(out) : out[j].t = kind}

\* two members were born on the same day of the same month
SameBirthday(a, b) ==
    /\ ~IsNaN(a.DOB_dt)
    /\ ~IsNaN(b.DOB_dt)
    /\ a.DOB_dt[2] = b.DOB_dt[2]
    /\ a.DOB_dt[3] = b.DOB_dt[3]

\* some two members of the squad share a birthday
HasCollision(squad) ==
    \E i, j \in 1..Len(squad) : i < j /\ SameBirthday(squad[i], squad[j])

\* the step is a pass of the loop of run_analysis
InPass == pc = "loop" /\ squads # <<>>

\* the lines a step prints
NewLines == SubSeq(out', Len(out) + 1, Len(out'))

----------------------------------------------------------------------------
(* C1 *)

\* C1: a source group is counted in total_squads exactly when at least
\* squad_size of its rows pass the row filter (a repeated roster number
\* counts each time); a group with fewer such rows adds nothing to
\* squads_with_matches and has no line in the report.
C1_EligibilityThreshold ==
    Running =>
        /\ total_squads = Cardinality({k \in Range(visited) : Eligible(k)})
        /\ pc = "done" =>
              total_squads = Cardinality({k \in SourceGroups : Eligible(k)})
        /\ \A j \in LinesOf("squad") : Eligible(out[j].id)
        /\ \A j \in LinesOf("match") : j > 1 /\ out[j - 1].t \in {"squad", "match"}
        /\ squads_with_matches = Cardinality(LinesOf("squad"))

\* a run in which a group one row short was left out and a group of exactly
\* squad_size rows, two of them with the same roster number, was counted
C1_Witness ==
    /\ pc = "done"
    /\ total_squads = 1
    /\ \E k \in SourceGroups : QualCount(k) = squad_size - 1 /\ QualCount(k) >= 1
    /\ \E k \in SourceGroups :
          /\ QualCount(k) = squad_size
          /\ \E i, j \in 1..Len(df) :
                /\ i < j
                /\ df[i].src_page = k /\ df[j].src_page = k
                /\ InFilter(df[i]) /\ InFilter(df[j])
                /\ df[i].num = df[j].num

----------------------------------------------------------------------------
(* C2 *)

\* C2: whatever squad_size is set to, the rows kept before grouping are
\* exactly the rows whose roster number is a number in [1, squad_size].
C2_FilterFollowsSquadSize ==
    Running =>
        LET Kept(r) == ~IsNaN(r.num) /\ r.num[1] >= 1 /\ r.num[1] <= squad_size
        IN  players = SelectSeq(df, Kept)

----------------------------------------------------------------------------
(* C3 *)

\* C3: a pass of the loop adds one to squads_with_matches exactly when it
\* counts the squad and two of the squad's members share a day and month of
\* birth, whatever their years; it never adds more than one, and a counted
\* squad without such a pair prints nothing.
C3_MatchIffCollision ==
    [][InPass =>
          LET counted == total_squads' = total_squads + 1
              hit == counted /\ HasCollision(squad_players')
          IN  /\ squads_with_matches' =
                     squads_with_matches + (IF hit THEN 1 ELSE 0)
              /\ ~hit => out' = out]_vars

\* the keys that at least two members of the squad share
CollidingKeys(squad) ==
    {<<squad[i].DOB_dt[2], squad[i].DOB_dt[3]>> :
        i \in {x \in 1..Len(squad) :
                 \E y \in 1..Len(squad) : x # y /\ SameBirthday(squad[x], squad[y])}}

\* a squad in which two keys collide, one pair born in different years,
\* has been counted once
C3_Witness ==
    /\ Running
    /\ total_squads = 1
    /\ squads_with_matches = 1
    /\ Len(squad_players) = squad_size
    /\ Cardinality(CollidingKeys(squad_players)) = 2
    /\ \E i, j \in 1..Len(squad_players) :
          /\ SameBirthday(squad_players[i], squad_players[j])
          /\ squad_players[i].DOB_dt[1] # squad_players[j].DOB_dt[1]

----------------------------------------------------------------------------
(* C4 *)

\* the members of the squad whose date of birth did not parse
Unparsed(squad) == {i \in 1..Len(squad) : IsNaN(squad[i].DOB_dt)}

\* C4: a member whose date of birth does not parse is in no collision: no
\* printed line has a missing key or names such a member, and a squad whose
\* parsed members have distinct birthdays adds nothing to
\* squads_with_matches however many unparsed members it has; yet the group
\* is counted whenever squad_size of its rows pass the row filter, parsed
\* or not.
C4_UnparsedDates ==
    [][InPass =>
          /\ Eligible(Head(squads)) => total_squads' = total_squads + 1
          /\ ~HasCollision(squad_players') =>
                squads_with_matches' = squads_with_matches
          /\ \A j \in 1..Len(NewLines) :
                NewLines[j].t = "match" =>
                   /\ ~IsNaN(NewLines[j].bday)
                   /\ \A x \in 1..Len(NewLines[j].names) :
                         \A r \in Range(squad_players') :
                            r.name = NewLines[j].names[x] => ~IsNaN(r.DOB_dt)]_vars

\* a counted squad with two unparsed members and no match
C4_Witness ==
    /\ Running
    /\ total_squads = 1
    /\ squads_with_matches = 0
    /\ Len(squad_players) = squad_size
    /\ Cardinality(Unparsed(squad_players)) >= 2

----------------------------------------------------------------------------
(* C5 *)

\* the names of the members of the squad born on the day and month key, in
\* the order of the squad
RECURSIVE NamesBornOn(_, _)
NamesBornOn(squad, key) ==
    IF squad = <<>> THEN <<>>
    ELSE (IF ~IsNaN(Head(squad).DOB_dt)
             /\ <<Head(squad).DOB_dt[2], Head(squad).DOB_dt[3]>> = key
          THEN <<Head(squad).name>> ELSE <<>>)
         \o NamesBornOn(Tail(squad), key)

\* C5: a pass that counts a squad prints one line for each key that two or
\* more members of the truncated squad share and no other line but the
\* squad's heading; the line names exactly the members of the truncated
\* squad born on that key, in the order of the squad.  So a squad in which
\* exactly two members share a key gets one line, naming those two.
C5_ReportedNames ==
    [][(InPass /\ total_squads' = total_squads + 1) =>
          LET squad == squad_players'
              keys == CollidingKeys(squad)
              lines == {j \in 1..Len(NewLines) : NewLines[j].t = "match"}
          IN  /\ Cardinality(lines) = Cardinality(keys)
              /\ {NewLines[j].bday : j \in lines} = keys
              /\ Len(NewLines) = IF keys = {} THEN 0 ELSE Cardinality(keys) + 1
              /\ \A j \in lines :
                    NewLines[j].names = NamesBornOn(squad, NewLines[j].bday)
              /\ (\E a, b \in 1..Len(squad) :
                     /\ a < b
                     /\ \A x, y \in 1..Len(squad) :
                           (x < y /\ SameBirthday(squad[x], squad[y]))
                              <=> (x = a /\ y = b))
                 => \E a, b \in 1..Len(squad) :
                       /\ a < b
                       /\ SameBirthday(squad[a], squad[b])
                       /\ Len(NewLines) = 2
                       /\ NewLines[2].names = <<squad[a].name, squad[b].name>>]_vars

\* a squad of two members who share a key has its line, while a third row
\* of the group with the same key was cut off by the truncation
C5_Witness ==
    /\ Running
    /\ Len(squad_players) = squad_size
    /\ squad_size = 2
    /\ Len(out) >= 3
    /\ out[Len(out)].t = "match"
    /\ Len(out[Len(out)].names) = 2
    /\ \E r \in Range(players) :
          /\ r.src_page = squad_players[1].src_page
          /\ r \notin Range(squad_players)
          /\ SameBirthday(r, squad_players[1])

----------------------------------------------------------------------------
(* Floats as exact numbers.  A float below 2^52 in size has e <= 0, and    *)
(* its value is the natural number m over 2^(-e).                          *)

\* |x - y| as a multiple of 2^e0, for e0 the smaller exponent
ExactDiff(x, y) ==
    LET e0 == IF x.e < y.e THEN x.e ELSE y.e
        X == BShl(x.m, x.e - e0)
        Y == BShl(y.m, y.e - e0)
    IN  [e |-> e0, d |-> IF BCmp(X, Y) >= 0 THEN BSub(X, Y) ELSE BSub(Y, X)]

\* -1, 0, 1 as |x - y| is below, at or above the whole number c,
\* for x, y >= 0
DiffAgainst(x, y, c) ==
    LET D == ExactDiff(x, y) IN BCmp(D.d, BShl(BFromInt(c), 0 - D.e))

\* x is a / b * c to within 2^-51 of its size
NearRatio(x, a, b, c) ==
    LET L == BMulSmall(x.m, b)
        R == BShl(BFromInt(a * c), 0 - x.e)
        D == IF BCmp(L, R) >= 0 THEN BSub(L, R) ELSE BSub(R, L)
    IN  x.s = 0 /\ BCmp(BShl(D, 51), R) <= 0

\* 0 <= x <= c
Within(x, c) ==
    FIsZero(x) \/ (x.s = 0 /\ BCmp(x.m, BShl(BFromInt(c), 0 - x.e)) <= 0)

----------------------------------------------------------------------------
(* C6 *)

\* C6: print_summary is called with the two counters and with an observed
\* probability that is squads_with_matches / total_squads * 100 when
\* total_squads > 0 and 0 when total_squads = 0; it lies in [0, 100].
C6_ObservedProbability ==
    pc = "done" =>
        /\ call.total = total_squads
        /\ call.matches = squads_with_matches
        /\ IF total_squads = 0 THEN FIsZero(call.observed)
           ELSE NearRatio(call.observed, squads_with_matches, total_squads, 100)
        /\ Within(call.observed, 100)

\* a finished run in which some counted squads, not all, had a match
C6_Witness ==
    /\ pc = "done"
    /\ 0 < squads_with_matches
    /\ squads_with_matches < total_squads
    /\ ~FIsZero(call.observed)

----------------------------------------------------------------------------
(* C7 *)

\* the loop has a pass to make for the group at the head of squads
CanPass ==
    \E sorted \in sort_values(GroupRows(players, Head(squads))) :
        shared_bdays(head(sorted, squad_size)) # {}

\* no state of the run is the end of a run that raised or got stuck, the
\* loop is over each group with a kept row, and a finished run printed its
\* summary once, as the last line
RunCompletes ==
    /\ pc # "raised"
    /\ pc = "loop" =>
          /\ visited \o squads = SortedKeys({k \in SourceGroups : QualCount(k) >= 1})
          /\ squads # <<>> => CanPass
    /\ pc = "done" =>
          /\ squads = <<>>
          /\ Cardinality(LinesOf("summary")) = 1
          /\ out[Len(out)].t = "summary"
          /\ out[Len(out)].theory = Format2f(call.theory)
          /\ ~FIsZero(call.theory)
          /\ (\A k \in SourceGroups : ~Eligible(k)) =>
                /\ out[Len(out)].total = 0
                /\ out[Len(out)].observed = 0

\* every step of the run takes it nearer its end
RunAdvances ==
    \/ pc = "constructed" /\ pc' \in {"constructed", "loop"}
    \/ pc = "loop" /\ pc' = "loop" /\ Len(squads') < Len(squads)
    \/ pc = "loop" /\ pc' = "done"

----------------------------------------------------------------------------
(* C8 *)

Aligned == "Data aligns closely."
Deviation == "Notable deviation due to small sample size."

\* C8: print_summary prints the aligned sentence exactly when observed and
\* theory differ by less than 5, and the deviation sentence otherwise, so
\* also when they differ by exactly 5.
C8_Verdict ==
    pc = "summary_done" =>
        /\ out[Len(out)].conclusion \in {Aligned, Deviation}
        /\ out[Len(out)].conclusion = Aligned
              <=> DiffAgainst(call.observed, call.theory, 5) = -1

\* a call whose arguments differ by exactly 5 printed the deviation sentence
C8_Witness ==
    /\ pc = "summary_done"
    /\ DiffAgainst(call.observed, call.theory, 5) = 0
    /\ out[Len(out)].conclusion = Deviation

----------------------------------------------------------------------------
(* C9 *)

\* C9: the theoretical probability handed to print_summary is that of
\* calculate_theoretical_probability(squad_size), as a percentage.
C9_TheoryFollowsSquadSize ==
    pc = "done" =>
        call.theory = FMul(calculate_theoretical_probability(squad_size), Hundred)

----------------------------------------------------------------------------
(* C10 *)

\* the value returned lies in [0, 1], and is 0 for n = 0
CalcInRange ==
    pc = "calc_done" =>
        /\ Within(calc.ret, 1)
        /\ calc.n = 0 => FIsZero(calc.ret)

\* the value returned after one more pass is no smaller
CalcGrows ==
    (pc = "calc_loop" /\ calc.i < calc.n) =>
        FLe(ProbReturn(calc.prob_no_match), ProbReturn(calc'.prob_no_match))

\* C10: for every n >= 0, calculate_theoretical_probability(n) lies in
\* [0, 1], the value for n + 1 is not below the value for n, and the value
\* for 0 is 0.
C10_ProbabilityRange == []CalcInRange /\ [][CalcGrows]_vars

\* the call for n = 23 returned a value strictly between 0 and 1
C10_Witness ==
    /\ pc = "calc_done"
    /\ calc.n = TheoryN
    /\ ~FIsZero(calc.ret)
    /\ Within(calc.ret, 1)
    /\ calc.ret # FFromInt(1)

----------------------------------------------------------------------------
(* C11 *)

\* C11 as stated: the value returned is exactly 1.0 for every n >= 366 and
\* strictly below 1 for every n <= 365.
C11_OneOnlyFrom366 ==
    pc = "calc_done" =>
        /\ calc.n >= 366 => FEq(calc.ret, FFromInt(1))
        /\ calc.n <= 365 => FLt(calc.ret, FFromInt(1))

\* C11, amended: the value returned is exactly 1.0 for every n >= 366, where
\* prob_no_match has reached zero; for n <= 365 it is at most 1: strictly
\* below 1 for n <= 152, and exactly 1.0 for 153 <= n <= 365, where
\* prob_no_match is still positive but 1 - prob_no_match rounds to 1.0.
C11_OneFrom153 ==
    pc = "calc_done" =>
        /\ calc.n >= 366 =>
              FEq(calc.ret, FFromInt(1)) /\ FIsZero(calc.prob_no_match)
        /\ calc.n <= 365 =>
              FLe(calc.ret, FFromInt(1)) /\ FLt(FFromInt(0), calc.prob_no_match)
        /\ calc.n <= 152 => FLt(calc.ret, FFromInt(1))
        /\ (calc.n >= 153 /\ calc.n <= 365) => FEq(calc.ret, FFromInt(1))

\* the call for an n past 366, whose last factor was negative, returned 1.0
C11_Witness ==
    /\ pc = "calc_done"
    /\ calc.n > 366
    /\ FEq(calc.ret, FFromInt(1))
    /\ FIsZero(calc.prob_no_match)

----------------------------------------------------------------------------
(* C12 *)

\* 365 * 364 * ... * (365 - n + 1), exactly
RECURSIVE FallingDays(_)
FallingDays(n) ==
    IF n = 0 THEN BFromInt(1) ELSE BMulSmall(FallingDays(n - 1), 365 - (n - 1))

\* 365^n, exactly
RECURSIVE PowerDays(_)
PowerDays(n) == IF n = 0 THEN BFromInt(1) ELSE BMulSmall(PowerDays(n - 1), 365)

\* |a - b| of two natural numbers
BDist(a, b) == IF BCmp(a, b) >= 0 THEN BSub(a, b) ELSE BSub(b, a)

\* the float x is within 2^-48 of 1 - FallingDays(n) / PowerDays(n)
NearComplement(x, n) ==
    LET D == PowerDays(n)
        N == FallingDays(n)
        k == 0 - x.e
    IN  /\ x.s = 0
        /\ BCmp(BShl(BDist(BMul(x.m, D), BShl(BSub(D, N), k)), 48), BShl(D, k)) <= 0

\* the float x is within tol / 10000 of ref / 10000
NearTenThousandths(x, ref, tol) ==
    LET k == 0 - x.e
    IN  /\ x.s = 0
        /\ BCmp(BDist(BMulSmall(x.m, 10000), BShl(BFromInt(ref), k)),
                BShl(BFromInt(tol), k)) <= 0

\* C12: calculate_theoretical_probability(23) is 1 minus the product over
\* i = 0..22 of (365 - i) / 365, lies within 0.0005 of 0.5073 and, times
\* 100, prints as 50.73.
C12_ReferenceValue ==
    (pc = "calc_done" /\ calc.n = 23) =>
        /\ NearComplement(calc.ret, 23)
        /\ NearTenThousandths(calc.ret, 5073, 5)
        /\ Format2f(FMul(calc.ret, Hundred)) = 5073
        /\ FEq(FMul(calc.ret, Hundred), theory_prob)

\* the call for n = 23 returned, after 23 passes, the value printed as 50.73
C12_Witness ==
    /\ pc = "calc_done"
    /\ calc.n = 23
    /\ calc.i = 23
    /\ Format2f(FMul(calc.ret, Hundred)) = 5073

----------------------------------------------------------------------------
(* C13 *)

\* the rows of the set S by rising roster number, rows of one number in the
\* order of the table
RECURSIVE InputOrder(_)
InputOrder(S) ==
    IF S = {} THEN <<>>
    ELSE LET first == CHOOSE r \in S : \A q \in S :
                          \/ r.num[1] < q.num[1]
                          \/ r.num[1] = q.num[1] /\ r.index <= q.index
         IN  <<first>> \o InputOrder(S \ {first})

\* C13: the squad a pass of the loop analyses is the first squad_size rows
\* of its group's kept rows in rising roster number, rows of one number in
\* the order of the table.
C13_StableSort ==
    (Running /\ visited # <<>>) =>
        squad_players =
            head(InputOrder(Range(GroupRows(players, visited[Len(visited)]))),
                 squad_size)

----------------------------------------------------------------------------
(* C14 *)

\* the passes of call r, in order
PassesOf(r) == LET OfRun(e) == e.run = r IN SelectSeq(again.log, OfRun)

\* a pass without the number of its call
Pass(e) == [squad_id |-> e.squad_id, squad_players |-> e.squad_players,
            counted |-> e.counted]

\* C14: a second call of run_analysis on an analyzer visits the same groups,
\* analyses the same squads with the same members, prints the same lines
\* and ends with the same counters and the same arguments to print_summary
\* as the first; the table is as the first call found it.
C14_Idempotent ==
    /\ again.run = 2 => df = again.first.df
    /\ (again.run = 2 /\ pc = "done") =>
          /\ Len(PassesOf(2)) = Len(PassesOf(1))
          /\ \A i \in 1..Len(PassesOf(1)) : Pass(PassesOf(2)[i]) = Pass(PassesOf(1)[i])
          /\ out = again.first.out \o again.first.out
          /\ total_squads = again.first.total
          /\ squads_with_matches = again.first.matches
          /\ call = again.first.call

\* a second call ended that counted a squad with a match, in a group where
\* two rows of one roster number competed for the last place of the squad
C14_Witness ==
    /\ again.run = 2
    /\ pc = "done"
    /\ squads_with_matches > 0
    /\ \E i \in 1..Len(again.log) :
          /\ again.log[i].run = 2
          /\ again.log[i].counted
          /\ Len(GroupRows(players, again.log[i].squad_id)) > squad_size
          /\ \E r \in Range(GroupRows(players, again.log[i].squad_id)) :
                /\ r \notin Range(again.log[i].squad_players)
                /\ r.num = again.log[i].squad_players[squad_size].num

----------------------------------------------------------------------------
(* C15 *)

\* the page of the roster with n rows in which some two members share a
\* birthday (shares) or no two do
PagesLike(n, shares) ==
    {k \in SourceGroups :
        /\ QualCount(k) = n
        /\ HasCollision(GroupRows(df, k)) = shares}

\* C15: on a table of three groups, A of 23 members of whom exactly two
\* share a birthday, B of 23 members with distinct birthdays and C of 20
\* members, run_analysis ends with total_squads = 2, squads_with_matches
\* = 1, observed 50.00, theory 50.73 and the aligned sentence, and prints
\* A's page with the one shared birthday and nothing of B or C.
C15_EndToEnd ==
    pc = "done" =>
        /\ Cardinality(PagesLike(23, TRUE)) = 1
        /\ Cardinality(PagesLike(23, FALSE)) = 1
        /\ Cardinality(PagesLike(20, FALSE)) = 1
        /\ total_squads = 2
        /\ squads_with_matches = 1
        /\ call.total = 2
        /\ call.matches = 1
        /\ call.observed = FFromInt(50)
        /\ out[Len(out)] = [t |-> "summary", total |-> 2, matches |-> 1,
                            observed |-> 5000, theory |-> 5073,
                            conclusion |-> Aligned]
        /\ Len(out) = 4
        /\ out[1] = HeaderLine
        /\ out[2].t = "squad" /\ out[2].id \in PagesLike(23, TRUE)
        /\ out[3].t = "match" /\ Len(out[3].names) = 2

\* the run ended on a table whose first page is C and whose last page is A
C15_Witness ==
    /\ pc = "done"
    /\ 1 \in PagesLike(20, FALSE)
    /\ 3 \in PagesLike(23, TRUE)
    /\ out[Len(out)].t = "summary"
    /\ out[2] = SquadLine(3)

----------------------------------------------------------------------------
(* C16 *)

\* the counters are in order and within the number of groups visited
CountersInOrder ==
    Running =>
        /\ 0 <= squads_with_matches
        /\ squads_with_matches <= total_squads
        /\ total_squads <= Len(visited)

\* a pass of the loop lowers no counter, and the squad it counts has
\* squad_size members, by rising roster number, each kept by the row filter
PassKeepsOrder ==
    InPass =>
        /\ total_squads' >= total_squads
        /\ squads_with_matches' >= squads_with_matches
        /\ total_squads' # total_squads =>
              /\ Len(squad_players') = squad_size
              /\ \A i \in 1..Len(squad_players') : InFilter(squad_players'[i])
              /\ \A i \in 1..(Len(squad_players') - 1) :
                    squad_players'[i].num[1] <= squad_players'[i + 1].num[1]

\* C16: at every step of the loop of run_analysis, 0 <= squads_with_matches
\* <= total_squads <= the number of groups visited, no counter decreases,
\* and every squad whose birthdays are counted has exactly squad_size
\* members, in non-decreasing roster number, all kept by the row filter.
C16_LoopInvariants == []CountersInOrder /\ [][PassKeepsOrder]_vars

\* in the loop, after a group that was left out and a squad without a match
\* and one with a match whose rows were not in roster order in the table
C16_Witness ==
    /\ pc = "loop"
    /\ 0 < squads_with_matches
    /\ total_squads < Len(visited)
    /\ \E i \in 1..Len(squad_players) :
          \E j \in 1..Len(squad_players) :
              /\ squad_players[i].index > squad_players[j].index
              /\ squad_players[i].num[1] < squad_players[j].num[1]

----------------------------------------------------------------------------
(* C17 *)

\* the second run has finished, and the first was interrupted
RerunFinished ==
    /\ hist.run = 2
    /\ Len(hist.ended) = 2
    /\ hist.ended[1] = "interrupted"
    /\ hist.ended[2] \in {"complete", "nothing"}

\* the row of output_csv has a status, and the scraped fields on success
HasResult(lines, idx) ==
    /\ idx \in 1..Len(lines)
    /\ ~IsNaN(lines[idx].scrape_status)
    /\ lines[idx].scrape_status = <<"success">> => ~IsNaN(lines[idx].scraped_full_name)

\* C17: when cricinfo_batch_scraper has run again after an interrupted run
\* on the same three files and the second run has finished, output_csv
\* holds a non-empty scrape_status (and the scraped fields on success) for
\* every player whose scrape was attempted in either run.
C17_ResultsKept ==
    RerunFinished =>
        /\ files.output_csv.exists
        /\ \A idx \in hist.rows : HasResult(files.output_csv.lines, idx)

----------------------------------------------------------------------------
(* C18 *)

\* the ids of the lines of the checkpoint file
Checkpointed == Range(files.checkpoint_file.lines)

\* a step that starts a scrape starts it for an id that was not in the
\* checkpoint file when the run began and was not attempted before in it
StartsFresh ==
    (scr.pc = "top" /\ scr'.pc = "try") =>
        /\ Player.cricinfo_id \notin hist.at_start
        /\ Player.cricinfo_id \notin hist.started

\* when the next player is about to be processed, or the loop is over, the
\* ids attempted so far in the run are in visited and in the checkpoint file
AttemptsMarked ==
    scr.pc = "top" =>
        /\ hist.started \subseteq scr.visited
        /\ hist.started \subseteq Checkpointed

\* C18: within one run a profile scrape is never started for a cricinfo id
\* that was in the checkpoint file at start or that was attempted earlier in
\* the run, even if several rows carry the id; and after every attempt that
\* ends in success, a reported profile error or a caught exception the id
\* is in visited and in the checkpoint file before the next player is
\* processed.
C18_NoRepeatScrape == []AttemptsMarked /\ [][StartsFresh]_vars

\* a second run over players with ids 1, 2, 2 whose checkpoint file held id
\* 1: the first player was skipped, the second scraped, the third skipped
C18_Witness ==
    /\ hist.run = 2
    /\ hist.at_start = {<<1>>}
    /\ hist.started = {<<2>>}
    /\ scr.pc = "top"
    /\ scr.skipped = 2
    /\ Len(scr.players_to_scrape) = 3
    /\ [k \in 1..3 |-> scr.players_to_scrape[k].cricinfo_id] = << <<1>>, <<2>>, <<2>> >>

====
